---- MODULE Spec2Model ----
(***************************************************************************)
(* Background tasks of olympia.addons.tasks, as exercised by               *)
(* src/olympia/addons/tests/test_tasks.py:                                 *)
(*   - migrate_lwts_to_static_themes / add_static_theme_from_lwt           *)
(*   - migrate_legacy_dictionary_to_webextension                           *)
(*   - migrate_addons_that_require_sensitive_data_access                   *)
(* olympia/addons/tasks.py itself is not part of the source tree at hand:  *)
(* the steps of each task follow spec.md sections 2 and 4, the observable  *)
(* results follow the assertions of the test module.                       *)
(***************************************************************************)
EXTENDS Integers, Sequences, FiniteSets, TLC

(* ------------------------------ bounds -------------------------------- *)
NumLwt == 2
MaxStatic == 3
NumRatings == 2
NumDays == 2

(* --------------------------- add-on identities ------------------------ *)
LwtIds == 1..NumLwt
StaticIds == (NumLwt + 1)..(NumLwt + MaxStatic)
OtherAddon == NumLwt + MaxStatic + 1
RatingIds == 1..NumRatings
None == "None"

STATUS_PUBLIC == "STATUS_PUBLIC"
STATUS_DELETED == "STATUS_DELETED"
STATUS_NULL == "STATUS_NULL"
STATUS_AWAITING_REVIEW == "STATUS_AWAITING_REVIEW"

(* Value returned by the mocked signing service. *)
SigningSerial == "abcdefg1234"

(* Account looked up by settings.MIGRATED_LWT_DEFAULT_OWNER_EMAIL. *)
DefaultOwner == "lwt_default_owner"
(* CATEGORIES[app][ADDON_STATICTHEME]['other'] *)
DefaultCategory == "other"
LICENSE_CC_BY_ND == "LICENSE_CC_BY_ND"
LICENSE_COPYRIGHT_AR == "LICENSE_COPYRIGHT_AR"

AuthorChoices == {{}, {"author"}, {"author", "coauthor"}}
CategoryChoices == {{}, {"abstract"}}
LicenseChoices == {None, LICENSE_CC_BY_ND}
TagFixture == {"themey"}

InitialSlug(l) == <<"theme", l>>
GeneratedSlug(s) == <<"static-theme", s>>

VARIABLES
    persona,            \* legacy theme records (Addon, type ADDON_PERSONA)
    themes,             \* static theme records created by the migration
    ratings,            \* Rating.unfiltered: id -> [addon, deleted]
    activityLog,        \* ActivityLog rows, oldest first
    themeUpdateCounts,  \* ThemeUpdateCount rows
    updateCounts,       \* UpdateCount rows
    migratedLWT,        \* MigratedLWT rows, oldest first
    pc, ids, todo, cur, new, result,  \* the running migrate_lwts task
    dict,               \* legacy dictionary add-ons (Addon, type ADDON_DICT)
    versions,           \* Version rows with their single file
    fileUploads,        \* number of FileUpload rows
    dictPc, dictCur, dictNew, dictOld, dictLocale, dictResult,
                        \* the running migrate_legacy_dictionary task
    sda,                \* add-ons inspected by the sensitive data access task
    sdaIds,             \* ids given to its last invocation
    sdaRuns,            \* how many times in a row it has run on that list
    dstFiles,           \* destination files of the persona image tasks
    pngcrushCalls,      \* destinations pngcrush_image was called with, in order
    imgCall             \* the last persona image task call and what it returned

lwtData == <<persona, themes, ratings, themeUpdateCounts, updateCounts, migratedLWT>>
lwtTask == <<pc, ids, todo, cur, new, result>>
dictVars == <<dict, versions, fileUploads, dictPc, dictCur, dictNew, dictOld,
              dictLocale, dictResult>>
sdaVars == <<sda, sdaIds, sdaRuns>>
imgVars == <<dstFiles, pngcrushCalls, imgCall>>
vars == <<lwtData, activityLog, lwtTask, dictVars, sdaVars, imgVars>>

(* ------------------------------ helpers ------------------------------- *)
Min(S) == CHOOSE x \in S : \A y \in S : x <= y

RatingArg(r) == [kind |-> "rating", id |-> r]
AddonArg(a) == [kind |-> "addon", id |-> a]
VersionArg(v) == [kind |-> "version", id |-> v]

(* The ADD_RATING entry written when a rating is created. *)
AddRatingLog(r, a) ==
    [action |-> "ADD_RATING", addon |-> a, arguments |-> <<RatingArg(r), AddonArg(a)>>]

RECURSIVE InitialLog(_, _)
InitialLog(r, owner) ==
    IF r > NumRatings THEN <<>>
    ELSE <<AddRatingLog(r, owner[r])>> \o InitialLog(r + 1, owner)

(* Daily counters: n entries for add-on a, on days 1..n. *)
CountRows(a, n) == {[addon_id |-> a, date |-> d, count |-> 100 * a + d] : d \in 1..n}

(* -------------------- fallback rules of the copy step ----------------- *)
AuthorsForNoFallback(lwt) == lwt.authors

\* authors: the legacy owners, or the default owner when there is none
AuthorsFor(lwt) ==
    IF lwt.authors = {} THEN {DefaultOwner} ELSE lwt.authors

CategoriesForNoFallback(lwt) == lwt.categories

\* categories: the legacy categories, or the 'other' static theme category
CategoriesFor(lwt) ==
    IF lwt.categories = {} THEN {DefaultCategory} ELSE lwt.categories

LicenseForNoFallback(lwt) == lwt.license

\* license: the legacy license, or All Rights Reserved when there is none
LicenseFor(lwt) ==
    IF lwt.license = None THEN LICENSE_COPYRIGHT_AR ELSE lwt.license

RatingsOfVisible(a) == {r \in RatingIds : ratings[r].addon = a /\ ~ratings[r].deleted}

\* Rating.unfiltered.filter(addon=lwt): soft-deleted ratings included
RatingsOf(a) == {r \in RatingIds : ratings[r].addon = a}

\* the ratings are re-pointed to the new theme
MoveRatings(from, to) ==
    [r \in RatingIds |->
        IF r \in RatingsOf(from) THEN [ratings[r] EXCEPT !.addon = to]
        ELSE ratings[r]]

\* an activity log entry of the legacy theme is transferred to the new one
TransferLog(e, from, to) ==
    IF e.action = "ADD_RATING" /\ e.addon = from
    THEN [e EXCEPT !.addon = to,
                   !.arguments = [i \in DOMAIN e.arguments |->
                       IF e.arguments[i] = AddonArg(from) THEN AddonArg(to)
                       ELSE e.arguments[i]]]
    ELSE e

CopiedCountsUnfiltered(from, to) ==
    {[c EXCEPT !.addon_id = to] : c \in themeUpdateCounts}

\* ThemeUpdateCount rows of the legacy theme, copied as UpdateCount rows
CopiedCounts(from, to) ==
    {[c EXCEPT !.addon_id = to] : c \in {x \in themeUpdateCounts : x.addon_id = from}}

(* ----------------------------- initial state -------------------------- *)
FixturePersona(l) ==
    [status |-> STATUS_PUBLIC, slug |-> InitialSlug(l), authors |-> {"author"},
     categories |-> {"abstract"}, license |-> LICENSE_CC_BY_ND, tags |-> TagFixture]

FixtureOwner == [r \in RatingIds |-> IF r = NumRatings THEN OtherAddon ELSE Min(LwtIds)]

FixtureDays == [a \in LwtIds \cup {OtherAddon} |-> IF a = OtherAddon THEN NumDays - 1 ELSE NumDays]

LwtInputs(meta, owner, deleted, days) ==
    /\ persona = [l \in LwtIds |->
          [FixturePersona(l) EXCEPT !.authors = meta[l].authors,
                                    !.categories = meta[l].categories,
                                    !.license = meta[l].license]]
    /\ ratings = [r \in RatingIds |-> [addon |-> owner[r], deleted |-> r \in deleted]]
    /\ activityLog = InitialLog(1, owner)
    /\ themeUpdateCounts = UNION {CountRows(a, days[a]) : a \in DOMAIN days}
    /\ updateCounts = CountRows(OtherAddon, days[OtherAddon])

FixtureMeta == [l \in LwtIds |-> [authors |-> {"author"}, categories |-> {"abstract"},
                                  license |-> LICENSE_CC_BY_ND]]

InitLwtTask ==
    /\ themes = <<>>
    /\ migratedLWT = <<>>
    /\ pc = "idle"
    /\ ids = {}
    /\ todo = {}
    /\ cur = None
    /\ new = None
    /\ result = None

\* The inputs vary along one axis at a time: authors, categories, license,
\* ratings (the first of them soft-deleted or not), update counts.
InitLwt ==
    /\ InitLwtTask
    /\ \/ \E a \in [LwtIds -> AuthorChoices] :
            LwtInputs([l \in LwtIds |-> [FixtureMeta[l] EXCEPT !.authors = a[l]]],
                      FixtureOwner, {}, FixtureDays)
       \/ \E c \in [LwtIds -> CategoryChoices] :
            LwtInputs([l \in LwtIds |-> [FixtureMeta[l] EXCEPT !.categories = c[l]]],
                      FixtureOwner, {}, FixtureDays)
       \/ \E li \in [LwtIds -> LicenseChoices] :
            LwtInputs([l \in LwtIds |-> [FixtureMeta[l] EXCEPT !.license = li[l]]],
                      FixtureOwner, {}, FixtureDays)
       \/ \E owner \in [RatingIds -> LwtIds \cup {OtherAddon}], deleted \in {{}, {Min(RatingIds)}} :
            LwtInputs(FixtureMeta, owner, deleted, FixtureDays)
       \/ \E days \in [LwtIds -> 0..NumDays] :
            LwtInputs(FixtureMeta, FixtureOwner, {},
                      [a \in LwtIds \cup {OtherAddon} |->
                          IF a = OtherAddon THEN FixtureDays[a] ELSE days[a]])

(* ------------------- migrate_lwts_to_static_themes -------------------- *)
\* The tasks are discrete units of work, run one at a time.
LookupLwtsUnfiltered(S) == S

\* Addon.objects.filter(id__in=ids): deleted add-ons are not returned
LookupLwts(S) == {l \in S : persona[l].status # STATUS_DELETED}

NextLwt(rest) ==
    /\ new' = None
    /\ IF rest = {}
       THEN /\ pc' = "idle" /\ cur' = None /\ todo' = {} /\ result' = "completed"
       ELSE /\ pc' = "build" /\ cur' = Min(rest) /\ todo' = rest \ {Min(rest)}
            /\ result' = None

migrate_lwts_to_static_themes(S) ==
    /\ UNCHANGED <<dictVars, sdaVars, imgVars>>
    /\ pc = "idle"
    /\ dictPc = "idle"
    /\ Cardinality(DOMAIN themes) + Cardinality(LookupLwts(S)) <= MaxStatic
    /\ ids' = S
    /\ NextLwt(LookupLwts(S))
    /\ UNCHANGED <<persona, themes, ratings, activityLog, themeUpdateCounts,
                   updateCounts, migratedLWT>>

\* A collaborator raised: the invocation ends, what was written stays.
TaskFails ==
    /\ pc' = "idle" /\ result' = "failed"
    /\ cur' = None /\ new' = None /\ todo' = {}
    /\ UNCHANGED ids

NewTheme(id, lwt) ==
    [origin |-> lwt, slug |-> GeneratedSlug(id), status |-> STATUS_NULL,
     authors |-> {}, categories |-> {}, tags |-> {}, license |-> None,
     file_status |-> STATUS_AWAITING_REVIEW, cert_serial_num |-> None]

\* build_static_theme_xpi_from_lwt, then the add-on, version and file records
BuildStaticTheme ==
    /\ UNCHANGED <<dictVars, sdaVars, imgVars>>
    /\ pc = "build"
    /\ \/ LET id == NumLwt + Cardinality(DOMAIN themes) + 1 IN
            /\ themes' = themes @@ (id :> NewTheme(id, cur))
            /\ new' = id
            /\ pc' = "copy"
            /\ UNCHANGED <<ids, todo, cur, result>>
       \/ TaskFails /\ UNCHANGED themes
    /\ UNCHANGED <<persona, ratings, activityLog, themeUpdateCounts, updateCounts,
                   migratedLWT>>

\* authors, tags, categories, license, ratings, rating log entries, update counts
CopyMetadata ==
    /\ UNCHANGED <<dictVars, sdaVars, imgVars>>
    /\ pc = "copy"
    /\ themes' = [themes EXCEPT ![new] =
          [@ EXCEPT !.authors = AuthorsFor(persona[cur]),
                    !.categories = CategoriesFor(persona[cur]),
                    !.tags = persona[cur].tags,
                    !.license = LicenseFor(persona[cur])]]
    /\ ratings' = MoveRatings(cur, new)
    /\ activityLog' = [i \in DOMAIN activityLog |-> TransferLog(activityLog[i], cur, new)]
    /\ updateCounts' = updateCounts \cup CopiedCounts(cur, new)
    /\ pc' = "sign"
    /\ UNCHANGED <<persona, themeUpdateCounts, migratedLWT, ids, todo, cur, new, result>>

SignedFileSerialLost(t) == t

\* sign_file: the serial returned by the signing service is stored on the file
SignedFile(t) == [t EXCEPT !.cert_serial_num = SigningSerial]

SignThemeFile ==
    /\ UNCHANGED <<dictVars, sdaVars, imgVars>>
    /\ pc = "sign"
    /\ \/ /\ themes' = [themes EXCEPT ![new] = SignedFile(@)]
          /\ pc' = "publish"
          /\ UNCHANGED <<ids, todo, cur, new, result>>
       \/ TaskFails /\ UNCHANGED themes
    /\ UNCHANGED <<persona, ratings, activityLog, themeUpdateCounts, updateCounts,
                   migratedLWT>>

PublishedTheme(t) == [t EXCEPT !.file_status = STATUS_PUBLIC, !.status = STATUS_PUBLIC]

\* the file and the add-on become public; add_static_theme_from_lwt returns
PublishTheme ==
    /\ UNCHANGED <<dictVars, sdaVars, imgVars>>
    /\ pc = "publish"
    /\ themes' = [themes EXCEPT ![new] = PublishedTheme(@)]
    /\ pc' = "record"
    /\ UNCHANGED <<persona, ratings, activityLog, themeUpdateCounts, updateCounts,
                   migratedLWT, ids, todo, cur, new, result>>

MappingForFirstTheme(lwt, static) ==
    [lightweight_theme |-> lwt, static_theme |-> Min(DOMAIN themes)]

\* MigratedLWT.objects.create(lightweight_theme=lwt, static_theme=static)
MappingFor(lwt, static) == [lightweight_theme |-> lwt, static_theme |-> static]

\* the mapping is stored, the legacy theme deleted, its slug given to the new theme
RecordMigration ==
    /\ UNCHANGED <<dictVars, sdaVars, imgVars>>
    /\ pc = "record"
    /\ migratedLWT' = Append(migratedLWT, MappingFor(cur, new))
    /\ persona' = [persona EXCEPT ![cur].status = STATUS_DELETED]
    /\ themes' = [themes EXCEPT ![new].slug = persona[cur].slug]
    /\ NextLwt(todo)
    /\ UNCHANGED <<ratings, activityLog, themeUpdateCounts, updateCounts, ids>>

NextLwtTask ==
    \/ \E S \in (SUBSET LwtIds) \ {{}} : migrate_lwts_to_static_themes(S)
    \/ BuildStaticTheme
    \/ CopyMetadata
    \/ SignThemeFile
    \/ PublishTheme
    \/ RecordMigration


(* ------------- migrate_legacy_dictionary_to_webextension -------------- *)
NumDict == 1
MaxUploads == 2
DictIds == (OtherAddon + 1)..(OtherAddon + NumDict)
\* the version a legacy dictionary has before the migration
OldVersion(d) == d - OtherAddon
\* values build_webext_dictionary_from_legacy may return
Locales == {"fake-locale", "fr"}

InitDict ==
    /\ dict = [d \in DictIds |-> [current_version |-> OldVersion(d), target_locale |-> None]]
    /\ versions = <<>>
    /\ fileUploads = 0
    /\ dictPc = "idle"
    /\ dictCur = None
    /\ dictNew = None
    /\ dictOld = None
    /\ dictLocale = None
    /\ dictResult = None

DictFails ==
    /\ dictPc' = "idle" /\ dictResult' = "failed"
    /\ dictCur' = None /\ dictNew' = None /\ dictOld' = None /\ dictLocale' = None

\* a FileUpload is created, then build_webext_dictionary_from_legacy runs
migrate_legacy_dictionary_to_webextension(d) ==
    /\ UNCHANGED <<lwtData, activityLog, lwtTask, sdaVars, imgVars>>
    /\ dictPc = "idle"
    /\ pc = "idle"
    /\ dict[d].current_version = OldVersion(d)
    /\ fileUploads < MaxUploads
    /\ fileUploads' = fileUploads + 1
    /\ \/ \E loc \in Locales :
            /\ dictLocale' = loc
            /\ dictCur' = d
            /\ dictOld' = dict[d].current_version
            /\ dictNew' = None
            /\ dictPc' = "version"
            /\ dictResult' = None
       \/ DictFails
    /\ UNCHANGED <<dict, versions>>

NewVersion(d) ==
    [addon |-> d, file_status |-> STATUS_AWAITING_REVIEW, cert_serial_num |-> None]

\* target_locale is set from the builder's return value
WithLocale(a, loc) == [a EXCEPT !.target_locale = loc]

\* Version.from_upload: the new version and its file
CreateDictVersion ==
    /\ UNCHANGED <<lwtData, activityLog, lwtTask, sdaVars, imgVars>>
    /\ dictPc = "version"
    /\ LET id == NumDict + Cardinality(DOMAIN versions) + 1 IN
          /\ versions' = versions @@ (id :> NewVersion(dictCur))
          /\ dictNew' = id
    /\ dict' = [dict EXCEPT ![dictCur] = WithLocale(@, dictLocale)]
    /\ dictPc' = "sign"
    /\ UNCHANGED <<fileUploads, dictCur, dictOld, dictLocale, dictResult>>

SignDictFile ==
    /\ UNCHANGED <<lwtData, activityLog, lwtTask, sdaVars, imgVars>>
    /\ dictPc = "sign"
    /\ \/ /\ versions' = [versions EXCEPT ![dictNew] = SignedFile(@)]
          /\ dictPc' = "publish"
          /\ UNCHANGED <<dictResult, dictCur, dictNew, dictOld, dictLocale>>
       \/ DictFails /\ UNCHANGED versions
    /\ UNCHANGED <<dict, fileUploads>>

PublishedVersion(v) == [v EXCEPT !.file_status = STATUS_PUBLIC]

\* a public file makes its version the add-on's current version
WithCurrentVersion(a, v) == [a EXCEPT !.current_version = v]

AddVersionLogSwapped(version, addon) ==
    [action |-> "ADD_VERSION", addon |-> addon,
     arguments |-> <<AddonArg(addon), VersionArg(version)>>]

\* activity.log_create(amo.LOG.ADD_VERSION, version, addon)
AddVersionLog(version, addon) ==
    [action |-> "ADD_VERSION", addon |-> addon,
     arguments |-> <<VersionArg(version), AddonArg(addon)>>]

PublishDictVersion ==
    /\ UNCHANGED <<lwtData, lwtTask, sdaVars, imgVars>>
    /\ dictPc = "publish"
    /\ versions' = [versions EXCEPT ![dictNew] = PublishedVersion(@)]
    /\ dict' = [dict EXCEPT ![dictCur] = WithCurrentVersion(@, dictNew)]
    /\ activityLog' = Append(activityLog, AddVersionLog(dictNew, dictCur))
    /\ dictPc' = "idle"
    /\ dictResult' = "completed"
    /\ UNCHANGED <<fileUploads, dictCur, dictNew, dictOld, dictLocale>>

NextDictTask ==
    \/ \E d \in DictIds : migrate_legacy_dictionary_to_webextension(d)
    \/ CreateDictVersion
    \/ SignDictFile
    \/ PublishDictVersion

(* --------- migrate_addons_that_require_sensitive_data_access ---------- *)
NumSda == 2
MaxRuns == 2
SdaIds == 1..NumSda
Permissions == {"messagesRead", "tabs", "sensitiveDataUpload"}
SensitivePermissions == {"messagesRead"}

HasSensitivePermission(perms) == perms \cap SensitivePermissions # {}

HasUploadOptInIgnored(perms) == FALSE

HasUploadOptIn(perms) == "sensitiveDataUpload" \in perms

FlagAddonNewlyFlaggedOnly(a) ==
    IF HasSensitivePermission(a.permissions)
    THEN [a EXCEPT !.requires_sensitive_data_access = TRUE,
                   !.needs_sensitive_data_access_review =
                       ~a.requires_sensitive_data_access
                       /\ ~HasUploadOptIn(a.permissions)]
    ELSE a

\* the flags of one add-on after the task has inspected its permissions
FlagAddon(a) ==
    IF HasSensitivePermission(a.permissions)
    THEN [a EXCEPT !.requires_sensitive_data_access = TRUE,
                   !.needs_sensitive_data_access_review =
                       IF HasUploadOptIn(a.permissions) THEN @ ELSE TRUE]
    ELSE a

SdaAddon(perms) ==
    [permissions |-> perms, requires_sensitive_data_access |-> FALSE,
     needs_sensitive_data_access_review |-> FALSE]

InitSda ==
    /\ \E p \in [SdaIds -> SUBSET Permissions] : sda = [a \in SdaIds |-> SdaAddon(p[a])]
    /\ sdaIds = {}
    /\ sdaRuns = 0

InitSdaFixture ==
    /\ sda = [a \in SdaIds |-> SdaAddon({"messagesRead"})]
    /\ sdaIds = {}
    /\ sdaRuns = 0

migrate_addons_that_require_sensitive_data_access(S) ==
    /\ sda' = [a \in SdaIds |-> IF a \in S THEN FlagAddon(sda[a]) ELSE sda[a]]
    /\ sdaIds' = S
    /\ sdaRuns' = (IF S = sdaIds THEN sdaRuns + 1 ELSE 1)
    /\ sdaRuns' <= MaxRuns
    /\ UNCHANGED <<lwtData, activityLog, lwtTask, dictVars, imgVars>>

NextSdaTask ==
    \E S \in SUBSET SdaIds : migrate_addons_that_require_sensitive_data_access(S)

(* ---------- save_persona_image, create_persona_preview_images --------- *)
NumDst == 3
MaxCrush == 3
DstIds == 1..NumDst
EmptyFile == "empty"
PngFile == "png"

\* get_image_path('persona-header.jpg') and get_image_path('non-image.png')
ImageSources ==
    {[name |-> "persona-header.jpg", content |-> "jpeg"],
     [name |-> "non-image.png", content |-> "text"]}

IsImageByExtension(src) == src.name \in {"persona-header.jpg", "non-image.png"}

\* ImageCheck(src).is_image(): decided by what the file holds
IsImage(src) == src.content \in {"jpeg", "png"}

Dsts(seq) == {seq[i] : i \in DOMAIN seq}

\* full_dst of create_persona_preview_images: two distinct destinations
PreviewDsts == {<<a, b>> : a, b \in DstIds} \ {<<a, a>> : a \in DstIds}

InitImage ==
    /\ dstFiles = [d \in DstIds |-> EmptyFile]
    /\ pngcrushCalls = <<>>
    /\ imgCall = [task |-> None, src |-> [name |-> None, content |-> None],
                  dsts |-> <<>>, returned |-> None]

\* each destination is written as a png, then handed to pngcrush_image
WriteAndCrush(task, src, dsts) ==
    /\ Len(pngcrushCalls) + Len(dsts) <= MaxCrush
    /\ dstFiles' = [d \in DstIds |-> IF d \in Dsts(dsts) THEN PngFile ELSE dstFiles[d]]
    /\ pngcrushCalls' = pngcrushCalls \o dsts
    /\ imgCall' = [task |-> task, src |-> src, dsts |-> dsts, returned |-> "True"]

\* not an image: the task returns early
ReturnEarly(task, src, dsts) ==
    /\ imgCall' = [task |-> task, src |-> src, dsts |-> dsts, returned |-> None]
    /\ UNCHANGED <<dstFiles, pngcrushCalls>>

save_persona_image(src, dst) ==
    /\ UNCHANGED <<lwtData, activityLog, lwtTask, dictVars, sdaVars>>
    /\ IF IsImage(src)
       THEN WriteAndCrush("save_persona_image", src, <<dst>>)
       ELSE ReturnEarly("save_persona_image", src, <<dst>>)

create_persona_preview_images(src, full_dst) ==
    /\ UNCHANGED <<lwtData, activityLog, lwtTask, dictVars, sdaVars>>
    /\ IF IsImage(src)
       THEN WriteAndCrush("create_persona_preview_images", src, full_dst)
       ELSE ReturnEarly("create_persona_preview_images", src, full_dst)

NextImageTask ==
    \/ \E src \in ImageSources, dst \in DstIds : save_persona_image(src, dst)
    \/ \E src \in ImageSources, full_dst \in PreviewDsts :
          create_persona_preview_images(src, full_dst)

(* --------------------------- specifications --------------------------- *)
InitLwtFixture ==
    /\ InitLwtTask
    /\ LwtInputs(FixtureMeta, FixtureOwner, {}, FixtureDays)

\* the legacy theme migration, over varied legacy themes
InitLwtRun == InitLwt /\ InitDict /\ InitSdaFixture /\ InitImage
SpecLwt == InitLwtRun /\ [][NextLwtTask]_vars

\* both migrations, sharing the activity log and the signing service
Init == InitLwtFixture /\ InitDict /\ InitSdaFixture /\ InitImage
Next == NextLwtTask \/ NextDictTask
Spec == Init /\ [][Next]_vars

\* the sensitive data access task, over varied permission sets
InitSdaRun == InitLwtFixture /\ InitDict /\ InitSda /\ InitImage
SpecSda == InitSdaRun /\ [][NextSdaTask]_vars

(* ------------------------------- claims ------------------------------- *)
Range(f) == {f[i] : i \in DOMAIN f}

RECURSIVE SortedSeq(_)
SortedSeq(S) == IF S = {} THEN <<>> ELSE <<Min(S)>> \o SortedSeq(S \ {Min(S)})

\* the copy step of add_static_theme_from_lwt has run for theme t
MetadataCopied(t) == ~(pc = "copy" /\ new = t)

\* C1: after migrate_addons_that_require_sensitive_data_access has run on a
\* list of ids, every add-on of the list has requires_sensitive_data_access
\* true exactly when its permissions hold a sensitive permission, and
\* needs_sensitive_data_access_review true exactly when they do and do not
\* hold sensitiveDataUpload; {messagesRead} gives (true, true), {tabs}
\* (false, false), {messagesRead, sensitiveDataUpload} (true, false).
C1_FlagsFollowPermissions ==
    \A a \in sdaIds :
        LET p == sda[a].permissions
            access == sda[a].requires_sensitive_data_access
            review == sda[a].needs_sensitive_data_access_review
        IN  /\ access <=> (\E x \in p : x \in SensitivePermissions)
            /\ review <=> ((\E x \in p : x \in SensitivePermissions)
                            /\ "sensitiveDataUpload" \notin p)
            /\ p = {"messagesRead"} => access /\ review
            /\ p = {"tabs"} => ~access /\ ~review
            /\ p = {"messagesRead", "sensitiveDataUpload"} => access /\ ~review

C1_Witness ==
    \E a, b \in sdaIds :
        /\ sda[a].permissions = {"messagesRead", "sensitiveDataUpload"}
        /\ sda[a].requires_sensitive_data_access
        /\ sda[b].permissions = {"messagesRead"}
        /\ sda[b].needs_sensitive_data_access_review

C3_PublicOnlyIfSigned ==
    /\ \A t \in DOMAIN themes :
          themes[t].file_status = STATUS_PUBLIC => themes[t].cert_serial_num # None
    /\ \A v \in DOMAIN versions :
          versions[v].file_status = STATUS_PUBLIC => versions[v].cert_serial_num # None

C3_Witness ==
    /\ pc = "idle" /\ result = "failed"
    /\ \E t \in DOMAIN themes :
          /\ themes[t].authors # {}
          /\ themes[t].cert_serial_num = None
          /\ themes[t].file_status # STATUS_PUBLIC
    /\ \E t \in DOMAIN themes : themes[t].file_status = STATUS_PUBLIC
    /\ \E v \in DOMAIN versions : versions[v].file_status = STATUS_PUBLIC

MappingsOf(l) == {i \in DOMAIN migratedLWT : migratedLWT[i].lightweight_theme = l}

\* C4: when migrate_lwts_to_static_themes completes, every legacy theme of
\* the list is deleted and has exactly one mapping, to the static theme built
\* from it, which carries its slug; there are as many mappings as ids.
C4_CompletedMigration ==
    (pc = "idle" /\ result = "completed") =>
        /\ \A l \in ids :
              /\ persona[l].status = STATUS_DELETED
              /\ Cardinality(MappingsOf(l)) = 1
              /\ \A i \in MappingsOf(l) :
                    /\ themes[migratedLWT[i].static_theme].origin = l
                    /\ themes[migratedLWT[i].static_theme].slug = InitialSlug(l)
        /\ Cardinality(UNION {MappingsOf(l) : l \in ids}) = Cardinality(ids)

C4_Witness ==
    /\ pc = "idle" /\ result = "completed"
    /\ Cardinality(ids) >= 2
    /\ Len(migratedLWT) = Cardinality(ids)

\* C5: a static theme made from a legacy theme without owners has exactly the
\* default owner as author; otherwise its authors are the legacy owners and
\* the default owner is not added.
C5_Authors ==
    \A t \in DOMAIN themes : MetadataCopied(t) =>
        LET owners == persona[themes[t].origin].authors IN
            /\ owners = {} => themes[t].authors = {DefaultOwner}
            /\ owners # {} => themes[t].authors = owners /\ DefaultOwner \notin themes[t].authors

C5_Witness ==
    \E t, u \in DOMAIN themes :
        /\ MetadataCopied(t) /\ MetadataCopied(u)
        /\ persona[themes[t].origin].authors = {}
        /\ themes[t].authors = {DefaultOwner}
        /\ Cardinality(persona[themes[u].origin].authors) = 2
        /\ themes[u].authors = persona[themes[u].origin].authors

\* C6: a static theme made from a legacy theme without category has exactly
\* the default ('other') category; otherwise its categories bear the names of
\* the legacy theme's categories.
C6_Categories ==
    \A t \in DOMAIN themes : MetadataCopied(t) =>
        LET cats == persona[themes[t].origin].categories IN
            /\ cats = {} => themes[t].categories = {"other"}
            /\ cats # {} => themes[t].categories = cats

C6_Witness ==
    \E t, u \in DOMAIN themes :
        /\ MetadataCopied(t) /\ MetadataCopied(u)
        /\ persona[themes[t].origin].categories = {}
        /\ themes[t].categories = {"other"}
        /\ persona[themes[u].origin].categories = {"abstract"}
        /\ themes[u].categories = {"abstract"}

\* C7 as stated: a static theme made from a legacy theme without license has
\* no license reference.
C7_NoLicenseNoFallback ==
    \A t \in DOMAIN themes : MetadataCopied(t) =>
        (persona[themes[t].origin].license = None => themes[t].license = None)

\* C7 as amended: a static theme made from a legacy theme without license
\* gets the All Rights Reserved license (LICENSE_COPYRIGHT_AR); one made from
\* a licensed legacy theme gets that license.
C7_NoLicenseAllRightsReserved ==
    \A t \in DOMAIN themes : MetadataCopied(t) =>
        LET license == persona[themes[t].origin].license IN
            /\ license = None => themes[t].license = "LICENSE_COPYRIGHT_AR"
            /\ license # None => themes[t].license = license

C7_Witness ==
    \E t \in DOMAIN themes :
        /\ MetadataCopied(t)
        /\ persona[themes[t].origin].license = None
        /\ themes[t].license = "LICENSE_COPYRIGHT_AR"
        /\ themes[t].status = STATUS_PUBLIC

\* C8: the copy step attaches to the new theme exactly the ratings of the
\* legacy theme, soft-deleted ones included, and no rating of another add-on;
\* the ADD_RATING log entries of the new theme are one per migrated rating,
\* in the order of the ratings, each naming its rating and the new theme.
C8_RatingsMigrated ==
    [][IF pc = "copy"
       THEN LET moved == {r \in RatingIds : ratings[r].addon = cur}
                order == SortedSeq(moved)
                entries == SelectSeq(activityLog',
                             LAMBDA e : e.action = "ADD_RATING" /\ e.addon = new)
            IN  /\ {r \in RatingIds : ratings'[r].addon = new} = moved
                /\ \A r \in RatingIds \ moved : ratings'[r] = ratings[r]
                /\ \A r \in moved : ratings'[r].deleted = ratings[r].deleted
                /\ Len(entries) = Len(order)
                /\ \A i \in DOMAIN order :
                      /\ RatingArg(order[i]) \in Range(entries[i].arguments)
                      /\ AddonArg(new) \in Range(entries[i].arguments)
       ELSE ratings' = ratings]_vars

C8_Witness ==
    /\ pc = "sign"
    /\ Cardinality({r \in RatingIds : ratings[r].addon = new}) >= 2
    /\ \E r \in RatingIds : ratings[r].addon = new /\ ratings[r].deleted
    /\ Len(SelectSeq(activityLog,
              LAMBDA e : e.action = "ADD_RATING" /\ e.addon = new)) >= 2

\* C9: update counts are copied, not moved: the copy step leaves n rows under
\* the new theme for the n rows of the legacy theme, the legacy rows stay, and
\* the rows of every other add-on are neither changed nor copied.
C9_UpdateCountsCopied ==
    [][/\ themeUpdateCounts' = themeUpdateCounts
       /\ IF pc = "copy"
          THEN LET legacy == {c \in themeUpdateCounts : c.addon_id = cur}
                   copied == {c \in updateCounts' : c.addon_id = new}
               IN  /\ Cardinality(copied) = Cardinality(legacy)
                   /\ {<<c.date, c.count>> : c \in copied}
                         = {<<c.date, c.count>> : c \in legacy}
                   /\ {c \in updateCounts' : c.addon_id # new} = updateCounts
          ELSE updateCounts' = updateCounts]_vars

C9_Witness ==
    /\ pc = "sign"
    /\ Cardinality({c \in updateCounts : c.addon_id = new}) >= 2
    /\ Cardinality({c \in themeUpdateCounts : c.addon_id = cur}) >= 2
    /\ \E c \in themeUpdateCounts : c.addon_id = OtherAddon
    /\ \E c \in updateCounts : c.addon_id = OtherAddon

AddVersionEntries(d) ==
    SelectSeq(activityLog, LAMBDA e : e.action = "ADD_VERSION" /\ e.addon = d)

\* C10 as stated: a completed dictionary migration has made a new version the
\* current one, set the target locale to the builder's value and logged
\* exactly one ADD_VERSION entry referencing the new and the old version.
C10_LogReferencesOldVersion ==
    dictResult = "completed" =>
        /\ dict[dictCur].current_version = dictNew
        /\ dictNew # dictOld
        /\ dict[dictCur].target_locale = dictLocale
        /\ Len(AddVersionEntries(dictCur)) = 1
        /\ VersionArg(dictNew) \in Range(AddVersionEntries(dictCur)[1].arguments)
        /\ VersionArg(dictOld) \in Range(AddVersionEntries(dictCur)[1].arguments)

\* C10 as amended: the one ADD_VERSION entry has the arguments
\* [new current version, add-on]; the old version is not among them.
C10_DictionaryMigrated ==
    dictResult = "completed" =>
        /\ dict[dictCur].current_version = dictNew
        /\ dictNew # dictOld
        /\ dict[dictCur].target_locale = dictLocale
        /\ Len(AddVersionEntries(dictCur)) = 1
        /\ AddVersionEntries(dictCur)[1].arguments
              = <<VersionArg(dict[dictCur].current_version), AddonArg(dictCur)>>
        /\ VersionArg(dictOld) \notin Range(AddVersionEntries(dictCur)[1].arguments)

C10_Witness ==
    /\ dictResult = "completed"
    /\ dict[dictCur].target_locale = "fake-locale"
    /\ dict[dictCur].current_version # OldVersion(dictCur)
    /\ Len(AddVersionEntries(dictCur)) = 1

\* C11: migrate_addons_that_require_sensitive_data_access is idempotent: run
\* again on the list of its last run, with the permissions unchanged, it
\* leaves the flags of every add-on as they are; and a run never changes the
\* flags of an add-on that is not in its list.
C11_FlaggingIdempotent ==
    [][/\ \A a \in SdaIds : sda'[a].permissions = sda[a].permissions
       /\ \A a \in SdaIds \ sdaIds' : sda'[a] = sda[a]
       /\ (sdaIds' = sdaIds /\ sdaRuns >= 1) => sda' = sda]_vars

\* the task has run twice on a list with a flagged add-on, next to an add-on
\* with a sensitive permission that is not in the list and is not flagged
C11_Witness ==
    /\ sdaRuns >= 2
    /\ \E a \in sdaIds : sda[a].needs_sensitive_data_access_review
    /\ \E b \in SdaIds \ sdaIds :
          /\ "messagesRead" \in sda[b].permissions
          /\ ~sda[b].requires_sensitive_data_access

\* the persona image tasks
InitImageRun == InitLwtFixture /\ InitDict /\ InitSdaFixture /\ InitImage
SpecImage == InitImageRun /\ [][NextImageTask]_vars

\* C12: called with a source that is not an image, the task returns early
\* without an error, writes no destination and does not call pngcrush_image;
\* called with an image, it writes every destination and calls
\* pngcrush_image once per destination, in the order of the destinations.
C12_InvalidImageNoWrite ==
    [][IF imgCall'.src.content = "text"
       THEN /\ imgCall'.returned = None
            /\ dstFiles' = dstFiles
            /\ pngcrushCalls' = pngcrushCalls
       ELSE /\ imgCall'.returned = "True"
            /\ pngcrushCalls' = pngcrushCalls \o imgCall'.dsts
            /\ \A d \in DstIds :
                  dstFiles'[d] = IF \E i \in DOMAIN imgCall'.dsts : imgCall'.dsts[i] = d
                                 THEN "png" ELSE dstFiles[d]]_vars

\* two previews were written and crushed in the order given, then
\* save_persona_image was called with non-image.png and an empty destination
C12_Witness ==
    /\ imgCall.task = "save_persona_image"
    /\ imgCall.src.name = "non-image.png"
    /\ imgCall.returned = None
    /\ dstFiles[imgCall.dsts[1]] = "empty"
    /\ Len(pngcrushCalls) = 2
    /\ pngcrushCalls[1] > pngcrushCalls[2]
====
